---- MODULE Spec2Model ----
(***************************************************************************)
(* Vector-Vector-Activate unit of finn-hlslib (vvau.hpp): the folded       *)
(* multiply-accumulate-activate loop in its two variants,                  *)
(*   Vector_Vector_Activate_Batch        (weights looked up in a table)    *)
(*   Vector_Vector_Activate_Stream_Batch (weights read from a stream),     *)
(* together with the three hls::stream channels the loop talks to.         *)
(*                                                                         *)
(* One behaviour is one invocation of one of the two functions (Spec and   *)
(* the specifications that narrow or widen its Init), or two invocations   *)
(* of one instantiation (InterleavedSpec, TwoRunSpec).  The template       *)
(* parameters and reps of an invocation are chosen in Init and never       *)
(* change.                                                                 *)
(* Each loop iteration is cut at its blocking stream operations:           *)
(*   in.read()  ->  [weights.read()]  ->  [out.write()]                    *)
(***************************************************************************)
EXTENDS Integers, Sequences, FiniteSets

(* ------------------------------ bounds -------------------------------- *)
MaxChannels == 4
MaxKernel == 2
MaxPE == 2
MaxMMV == 2
MaxSIMD == 2
MaxReps == 2
FifoDepth == 1
WeightWidth == 2

\* the producers of the model never write more than this many elements
MaxSupply == 8

VARIABLES
  mode,       \* "table": Vector_Vector_Activate_Batch, "stream": ..._Stream_Batch
  Channels, Kernel_2, SIMD, PE, MMV,   \* template parameters
  reps,       \* int const reps
  variant,    \* which data the invocation is given: 0, or the lane kept
  pc,         \* position of the invocation
  i, nf, sf, tile,  \* loop counter and folding indices
  accu,       \* accu[mmv][pe]
  inElem,     \* TI inElem of the current iteration
  W_packed,   \* streamed mode: the packed word of the current iteration
  w,          \* weight tile of the current iteration (w[pe] = one lane)
  inQ, inWritten,   \* hls::stream in and what its producer has written
  wQ, wWritten,     \* hls::stream weights and what its producer has written
  stopped,          \* the producers have ended
  outQ,       \* hls::stream out
  dst,        \* what the consumer has taken from out, in order
  other       \* a second invocation, while this one is looked at

cfgVars == <<mode, Channels, Kernel_2, SIMD, PE, MMV, reps, variant>>
engVars == <<pc, i, nf, sf, tile, accu, inElem, W_packed, w>>
inVars  == <<inQ, inWritten>>
wVars   == <<wQ, wWritten>>
outVars == <<outQ, dst>>
runVars == <<cfgVars, engVars, inVars, wVars, stopped, outVars>>
vars    == <<runVars, other>>

(* ------------------- unsigned 32-bit arithmetic ----------------------- *)
\* An unsigned value is kept as two 16-bit halves <<hi, lo>>.
Half == 2^16

\* the conversion with a negative value taken as zero
ToUnsigned_clamp(x) ==
  IF x >= 0 THEN <<(x \div Half) % Half, x % Half>> ELSE <<0, 0>>

\* conversion of the int reps to unsigned in reps * TOTAL_FOLD
ToUnsigned(x) ==
  IF x >= 0 THEN <<(x \div Half) % Half, x % Half>>
  ELSE <<(Half - 1) - (((-x) - 1) \div Half), (Half - 1) - (((-x) - 1) % Half)>>

\* unsigned product a * n modulo 2^32, n a small natural number
MulUnsigned(a, n) ==
  LET lo == a[2] * n
  IN  <<(a[1] * n + (lo \div Half)) % Half, lo % Half>>

LessUnsigned(a, b) == a[1] < b[1] \/ (a[1] = b[1] /\ a[2] < b[2])

(* ------------------------ folding constants --------------------------- *)
\* unsigned const NF = Channels / PE
NF == Channels \div PE

\* table: SF = Kernel_2;  stream: SF = (Channels*Kernel_2) / Channels
SF == IF mode = "table" THEN Kernel_2 ELSE (Channels * Kernel_2) \div Channels

TOTAL_FOLD == NF * SF

\* the loop's bound reps * TOTAL_FOLD, computed in unsigned arithmetic
LoopBound == MulUnsigned(ToUnsigned(reps), TOTAL_FOLD)

\* the loop condition with <= in place of <
LoopCond_le == ~LessUnsigned(LoopBound, ToUnsigned(i))

\* the loop condition i < reps * TOTAL_FOLD
LoopCond == LessUnsigned(ToUnsigned(i), LoopBound)

\* what the compiler refuses to instantiate
Rejected ==
  \/ mode = "table" /\ SIMD # 1
  \/ mode = "stream" /\ Channels = 0

(* ---------------- collaborators the engine is generic in -------------- *)
\* activation.init(nf, pe)
PolicyInit(n, p) == 10 * n + p + 1

\* activation.activate(nf, pe, accu): kept as the term it was called with
PolicyActivate(n, p, a) == [nf |-> n, pe |-> p, acc |-> a]

\* mul(wgt, act, r)
mul(c, a) == c * a

\* TWeightI()(w[pe])[s]: the s-th WeightWidth-bit element of a weight lane
WgtElem(lane, s) == (lane \div 2^(s * WeightWidth)) % 2^WeightWidth

\* TSrcI()(inElem, mmv)(pe, mmv)
act(e, p, m) == e[m][p][0]

(* ------------------------------ test data ----------------------------- *)
\* Data set 0 is the reference.  Data set v >= 1 keeps lane
\* (pe, mmv) = ((v-1) % PE, (v-1) / PE) of the reference, with the weights
\* of lane pe, and has other values in every other lane.
KeptPE(v) == (v - 1) % PE
KeptMMV(v) == (v - 1) \div PE

\* what data set v adds to the activations of lane (p, m)
ActShift(v, p, m) ==
  IF v = 0 \/ (p = KeptPE(v) /\ m = KeptMMV(v)) THEN 0 ELSE 1

\* what data set v adds to the weights of lane p
WgtShift(v, p) == IF v = 0 \/ p = KeptPE(v) THEN 0 ELSE 1

\* the k-th element written to in: e[mmv][pe][s]
InData(k) ==
  [m \in 0..(MMV - 1) |-> [p \in 0..(PE - 1) |->
     [s \in 0..(SIMD - 1) |->
        1 + ((k + 2 * m + 3 * p + s + ActShift(variant, p, m)) % 5)]]]

\* the weight lane pe of tile t: SIMD elements of WeightWidth bits
RECURSIVE LaneOf(_, _, _)
LaneOf(t, p, n) ==
  IF n = 0 THEN 0
  ELSE LaneOf(t, p, n - 1)
       + ((t + 2 * p + (n - 1) + 1 + WgtShift(variant, p)) % 2^WeightWidth)
         * 2^((n - 1) * WeightWidth)

WLane(t, p) == LaneOf(t, p, SIMD)

\* weights.weights(tile): the table of the table variant
WeightTable(t) == [p \in 0..(PE - 1) |-> WLane(t, p)]

\* lanes packed into one word, lane 0 in the least significant field
RECURSIVE PackLanes(_, _)
PackLanes(lanes, n) ==
  IF n = 0 THEN 0
  ELSE PackLanes(lanes, n - 1) + lanes[n - 1] * 2^((n - 1) * SIMD * WeightWidth)

\* the tile whose weights the k-th word of the weight stream carries: the
\* stream repeats the TOTAL_FOLD tiles of the table once per repetition
WIndex(k) == IF TOTAL_FOLD > 0 THEN k % TOTAL_FOLD ELSE k

\* the k-th word written to the weight stream
WData(k) == PackLanes(WeightTable(WIndex(k)), PE)

(* --------------------------- loop body pieces ------------------------- *)
\* accu[mmv][pe] = activation.init(nf, pe) for all lanes
InitAccu(n) ==
  [m \in 0..(MMV - 1) |-> [p \in 0..(PE - 1) |-> PolicyInit(n, p)]]

\* the initialisation made in the first image only
ThresholdInit_once(a) == IF sf = 0 /\ i < TOTAL_FOLD THEN InitAccu(nf) ELSE a

\* the initialisation made only while the accumulators hold nothing yet
ThresholdInit_fresh(a) ==
  IF sf = 0 /\ a[0][0] = -1 THEN InitAccu(nf) ELSE a

\* if(sf == 0) { ... init ... }
ThresholdInit(a) == IF sf = 0 THEN InitAccu(nf) ELSE a

\* the MAC with every lane multiplied by the weight of lane 0
Mac_lane0(a, wt, e) ==
  [m \in 0..(MMV - 1) |-> [p \in 0..(PE - 1) |->
     a[m][p] + mul(WgtElem(wt[0], 0), act(e, p, m))]]

\* accu[mmv][pe] += mul(wgt[0], act(pe,mmv), r) for all lanes
Mac(a, wt, e) ==
  [m \in 0..(MMV - 1) |-> [p \in 0..(PE - 1) |->
     a[m][p] + mul(WgtElem(wt[p], 0), act(e, p, m))]]

\* the slice with the lanes taken from the most significant field downwards
UnpackLane_high(word, p) ==
  (word \div 2^((PE - 1 - p) * SIMD * WeightWidth)) % 2^(SIMD * WeightWidth)

\* the slice with the offset of a lane computed without the factor SIMD
UnpackLane_elem(word, p) ==
  (word \div 2^(p * WeightWidth)) % 2^(SIMD * WeightWidth)

\* w.m_weights[pe] = W_packed((pe+1)*SIMD*TW::width-1, pe*SIMD*TW::width)
UnpackLane(word, p) ==
  (word \div 2^(p * SIMD * WeightWidth)) % 2^(SIMD * WeightWidth)

Unpack(word) == [p \in 0..(PE - 1) |-> UnpackLane(word, p)]

\* the output element with the accumulator of pixel 0 in every pixel
OutElem_mmv0(n, a) ==
  [p \in 0..(PE - 1) |-> [m \in 0..(MMV - 1) |-> PolicyActivate(n, p, a[0][p])]]

\* outElem(pe,mmv,1) = activation.activate(nf, pe, accu[mmv][pe])
OutElem(n, a) ==
  [p \in 0..(PE - 1) |-> [m \in 0..(MMV - 1) |-> PolicyActivate(n, p, a[m][p])]]

\* the step to the next folded neuron without the wrap to the next image
NextFold_nowrap ==
  /\ sf' = 0
  /\ nf' = nf + 1
  /\ tile' = tile

\* the step to the next image with nf set back and tile left as it is
NextFold_keeptile ==
  /\ sf' = 0
  /\ nf' = IF nf + 1 = NF THEN 0 ELSE nf + 1
  /\ tile' = tile

\* after out.write: sf = 0; if(++nf == NF) { nf = 0; tile = 0; }
NextFold ==
  /\ sf' = 0
  /\ IF nf + 1 = NF THEN nf' = 0 /\ tile' = 0
                    ELSE nf' = nf + 1 /\ tile' = tile

\* the same with the comparison made before the increment: if(sf++ == SF)
AfterMac_late ==
  IF sf = SF
  THEN /\ pc' = "write"
       /\ tile' = tile + 1
       /\ sf' = sf + 1
       /\ UNCHANGED <<i, nf>>
  ELSE /\ pc' = "loop"
       /\ tile' = tile + 1
       /\ sf' = sf + 1
       /\ i' = i + 1
       /\ UNCHANGED nf

\* ++tile; if(++sf == SF) -> produce output, else the next iteration
AfterMac ==
  IF sf + 1 = SF
  THEN /\ pc' = "write"
       /\ tile' = tile + 1
       /\ sf' = sf + 1
       /\ UNCHANGED <<i, nf>>
  ELSE /\ pc' = "loop"
       /\ tile' = tile + 1
       /\ sf' = sf + 1
       /\ i' = i + 1
       /\ UNCHANGED nf

(* ---------------- Vector_Vector_Activate_Batch (table) ---------------- *)
\* the same with a read that does not block: an empty channel yields the
\* element of the previous iteration
VVAB_Read_nb ==
  /\ mode = "table" /\ pc = "loop" /\ LoopCond
  /\ inElem' = IF inQ # <<>> THEN Head(inQ) ELSE inElem
  /\ inQ' = IF inQ # <<>> THEN Tail(inQ) ELSE inQ
  /\ w' = WeightTable(tile)
  /\ accu' = Mac(ThresholdInit(accu), WeightTable(tile),
                 IF inQ # <<>> THEN Head(inQ) ELSE inElem)
  /\ AfterMac
  /\ UNCHANGED <<cfgVars, W_packed, inWritten, wVars, stopped, outVars>>

\* loop test, in.read(), threshold initialisation, table lookup, MAC
VVAB_Read ==
  /\ mode = "table" /\ pc = "loop" /\ LoopCond
  /\ inQ # <<>>
  /\ inElem' = Head(inQ)
  /\ inQ' = Tail(inQ)
  /\ w' = WeightTable(tile)
  /\ accu' = Mac(ThresholdInit(accu), WeightTable(tile), Head(inQ))
  /\ AfterMac
  /\ UNCHANGED <<cfgVars, W_packed, inWritten, wVars, stopped, outVars>>

\* out.write(outElem) and the step to the next folded neuron or image
VVAB_Write ==
  /\ mode = "table" /\ pc = "write"
  /\ Len(outQ) < FifoDepth
  /\ outQ' = Append(outQ, OutElem(nf, accu))
  /\ NextFold
  /\ i' = i + 1
  /\ pc' = "loop"
  /\ UNCHANGED <<cfgVars, accu, inElem, W_packed, w, inVars, wVars, stopped, dst>>

\* the loop condition fails: the function returns
VVAB_Return ==
  /\ mode = "table" /\ pc = "loop" /\ ~LoopCond
  /\ pc' = "done"
  /\ UNCHANGED <<cfgVars, i, nf, sf, tile, accu, inElem, W_packed, w,
                 inVars, wVars, stopped, outVars>>

(* ------------- Vector_Vector_Activate_Stream_Batch (stream) ----------- *)
\* the read step with a look at the head of in where the read should be
VVASB_Read_peek ==
  /\ mode = "stream" /\ pc = "loop" /\ LoopCond
  /\ inQ # <<>>
  /\ inElem' = Head(inQ)
  /\ inQ' = inQ
  /\ accu' = ThresholdInit(accu)
  /\ pc' = "weights"
  /\ UNCHANGED <<cfgVars, i, nf, sf, tile, W_packed, w, inWritten,
                 wVars, stopped, outVars>>

\* loop test, in.read(), threshold initialisation
VVASB_Read ==
  /\ mode = "stream" /\ pc = "loop" /\ LoopCond
  /\ inQ # <<>>
  /\ inElem' = Head(inQ)
  /\ inQ' = Tail(inQ)
  /\ accu' = ThresholdInit(accu)
  /\ pc' = "weights"
  /\ UNCHANGED <<cfgVars, i, nf, sf, tile, W_packed, w, inWritten,
                 wVars, stopped, outVars>>

\* the same with the packed word taken from the stream only at the end of a
\* sweep and looked at, not taken, in the steps before
VVASB_Weights_peek ==
  /\ mode = "stream" /\ pc = "weights"
  /\ wQ # <<>>
  /\ W_packed' = Head(wQ)
  /\ wQ' = IF sf + 1 = SF THEN Tail(wQ) ELSE wQ
  /\ w' = Unpack(Head(wQ))
  /\ accu' = Mac(accu, Unpack(Head(wQ)), inElem)
  /\ AfterMac
  /\ UNCHANGED <<cfgVars, inElem, inVars, wWritten, stopped, outVars>>

\* weights.read(), unpacking, MAC
VVASB_Weights ==
  /\ mode = "stream" /\ pc = "weights"
  /\ wQ # <<>>
  /\ W_packed' = Head(wQ)
  /\ wQ' = Tail(wQ)
  /\ w' = Unpack(Head(wQ))
  /\ accu' = Mac(accu, Unpack(Head(wQ)), inElem)
  /\ AfterMac
  /\ UNCHANGED <<cfgVars, inElem, inVars, wWritten, stopped, outVars>>

VVASB_Write ==
  /\ mode = "stream" /\ pc = "write"
  /\ Len(outQ) < FifoDepth
  /\ outQ' = Append(outQ, OutElem(nf, accu))
  /\ NextFold
  /\ i' = i + 1
  /\ pc' = "loop"
  /\ UNCHANGED <<cfgVars, accu, inElem, W_packed, w, inVars, wVars, stopped, dst>>

VVASB_Return ==
  /\ mode = "stream" /\ pc = "loop" /\ ~LoopCond
  /\ pc' = "done"
  /\ UNCHANGED <<cfgVars, i, nf, sf, tile, accu, inElem, W_packed, w,
                 inVars, wVars, stopped, outVars>>

(* ------------------------------ environment --------------------------- *)
\* the producer of in writes its next element
InProduce ==
  /\ ~Rejected /\ ~stopped
  /\ inWritten < MaxSupply
  /\ Len(inQ) < FifoDepth
  /\ inQ' = Append(inQ, InData(inWritten))
  /\ inWritten' = inWritten + 1
  /\ UNCHANGED <<cfgVars, engVars, wVars, stopped, outVars>>

\* the k-th element written to in by a producer that repeats one frame of
\* TOTAL_FOLD elements (the test bench writes the same vector every round)
InFrame(k) == InData(WIndex(k))

\* the producer of in writes the next element of the repeated frame
InProduceFrame ==
  /\ ~Rejected /\ ~stopped
  /\ inWritten < MaxSupply
  /\ Len(inQ) < FifoDepth
  /\ inQ' = Append(inQ, InFrame(inWritten))
  /\ inWritten' = inWritten + 1
  /\ UNCHANGED <<cfgVars, engVars, wVars, stopped, outVars>>

\* the producer of weights writes its next packed word
WProduce ==
  /\ ~Rejected /\ mode = "stream" /\ ~stopped
  /\ wWritten < MaxSupply
  /\ Len(wQ) < FifoDepth
  /\ wQ' = Append(wQ, WData(wWritten))
  /\ wWritten' = wWritten + 1
  /\ UNCHANGED <<cfgVars, engVars, inVars, stopped, outVars>>

\* the producers end, having written what they have written
Stop ==
  /\ ~Rejected /\ ~stopped
  /\ stopped' = TRUE
  /\ UNCHANGED <<cfgVars, engVars, inVars, wVars, outVars>>

\* the consumer of out takes the next element
Consume ==
  /\ outQ # <<>>
  /\ dst' = Append(dst, Head(outQ))
  /\ outQ' = Tail(outQ)
  /\ UNCHANGED <<cfgVars, engVars, inVars, wVars, stopped>>

(* ----------------------------- specification -------------------------- *)
\* accu is declared without an initialiser: what it holds before the first
\* threshold initialisation is indeterminate, and no value a lane can compute
Indeterminate == -1

\* one invocation at its entry, reps taken from R and its data set from V
InitRun(R, V) ==
  /\ mode \in {"table", "stream"}
  /\ Channels \in 0..MaxChannels
  /\ Kernel_2 \in 0..MaxKernel
  /\ SIMD \in 1..MaxSIMD
  /\ PE \in 1..MaxPE
  /\ MMV \in 1..MaxMMV
  /\ reps \in R
  /\ variant \in V
  /\ pc = IF Rejected THEN "rejected" ELSE "loop"
  /\ i = 0 /\ nf = 0 /\ sf = 0 /\ tile = 0
  /\ accu = [m \in 0..(MMV - 1) |-> [p \in 0..(PE - 1) |-> Indeterminate]]
  /\ inElem = InData(0)
  /\ W_packed = 0
  /\ w = [p \in 0..(PE - 1) |-> 0]
  /\ inQ = <<>> /\ inWritten = 0
  /\ wQ = <<>> /\ wWritten = 0
  /\ stopped = FALSE
  /\ outQ = <<>> /\ dst = <<>>

\* no second invocation
Alone == [mode |-> "none"]

Init == InitRun(0..MaxReps, {0}) /\ other = Alone

Engine ==
  \/ VVAB_Read \/ VVAB_Write \/ VVAB_Return
  \/ VVASB_Read \/ VVASB_Weights \/ VVASB_Write \/ VVASB_Return

Next ==
  /\ \/ VVAB_Read \/ VVAB_Write \/ VVAB_Return
     \/ VVASB_Read \/ VVASB_Weights \/ VVASB_Write \/ VVASB_Return
     \/ InProduce \/ WProduce \/ Stop \/ Consume
  /\ UNCHANGED other

Spec == Init /\ [][Next]_vars

\* The engine keeps running while it can; a producer that has not ended
\* writes when there is room; the consumer keeps reading.
FairSpec ==
  /\ Init /\ [][Next]_vars
  /\ WF_vars(Engine /\ UNCHANGED other)
  /\ WF_vars(InProduce /\ UNCHANGED other)
  /\ WF_vars(WProduce /\ UNCHANGED other)
  /\ WF_vars(Consume /\ UNCHANGED other)

\* The engine fed the same frame in every repetition.
NextFrame ==
  /\ \/ VVAB_Read \/ VVAB_Write \/ VVAB_Return
     \/ VVASB_Read \/ VVASB_Weights \/ VVASB_Write \/ VVASB_Return
     \/ InProduceFrame \/ WProduce \/ Stop \/ Consume
  /\ UNCHANGED other

FrameSpec == Init /\ [][NextFrame]_vars

\* The same invocations with one pixel and one input column per lane: what
\* the engine reads, writes and waits for does not depend on the widths of
\* the data it moves.
InitScalar == Init /\ MMV = 1 /\ SIMD = 1

FairScalarSpec ==
  /\ InitScalar /\ [][Next]_vars
  /\ WF_vars(Engine /\ UNCHANGED other)
  /\ WF_vars(InProduce /\ UNCHANGED other)
  /\ WF_vars(WProduce /\ UNCHANGED other)
  /\ WF_vars(Consume /\ UNCHANGED other)

\* The invocations whose sweep is one tile long: SF = 1 is Kernel_2 = 1.
InitSingleTile == Init /\ Kernel_2 = 1

SingleTileSpec == InitSingleTile /\ [][Next]_vars

\* a number of repetitions whose product with 4 is 2^32
BigReps == 2^30

\* The invocations with reps of either sign or very large, one pixel and one
\* input column per lane.
InitSigned ==
  /\ InitRun(((-MaxReps)..MaxReps) \cup {BigReps}, {0})
  /\ MMV = 1 /\ SIMD = 1
  /\ other = Alone

SignedSpec == InitSigned /\ [][Next]_vars

(* --------------------------- two invocations -------------------------- *)
\* Everything an invocation owns: its template parameters and reps, its
\* locals i, nf, sf, tile, accu, inElem, W_packed, w, and the channels it
\* was passed.  Nothing in either function is static or global.
Snapshot ==
  [mode |-> mode, Channels |-> Channels, Kernel_2 |-> Kernel_2, SIMD |-> SIMD,
   PE |-> PE, MMV |-> MMV, reps |-> reps, variant |-> variant,
   pc |-> pc, i |-> i, nf |-> nf, sf |-> sf, tile |-> tile, accu |-> accu,
   inElem |-> inElem, W_packed |-> W_packed, w |-> w,
   inQ |-> inQ, inWritten |-> inWritten, wQ |-> wQ, wWritten |-> wWritten,
   stopped |-> stopped, outQ |-> outQ, dst |-> dst]

\* what Switch does to everything but the accumulators
SwitchRest ==
  /\ other # Alone
  /\ other' = Snapshot
  /\ mode' = other.mode /\ Channels' = other.Channels
  /\ Kernel_2' = other.Kernel_2 /\ SIMD' = other.SIMD
  /\ PE' = other.PE /\ MMV' = other.MMV
  /\ reps' = other.reps /\ variant' = other.variant
  /\ pc' = other.pc /\ i' = other.i
  /\ nf' = other.nf /\ sf' = other.sf /\ tile' = other.tile
  /\ inElem' = other.inElem /\ W_packed' = other.W_packed /\ w' = other.w
  /\ inQ' = other.inQ /\ inWritten' = other.inWritten
  /\ wQ' = other.wQ /\ wWritten' = other.wWritten
  /\ stopped' = other.stopped
  /\ outQ' = other.outQ /\ dst' = other.dst

\* the scheduler turns to the other invocation, the accumulator bank being
\* one static array that the two invocations share
Switch_static == SwitchRest /\ accu' = accu

\* the scheduler turns to the other invocation: the one that ran is set
\* aside as it is, the other is taken up where it was left
Switch == SwitchRest /\ accu' = other.accu

\* Two invocations of one valid instantiation with the same reps from R,
\* the first given the reference data and the second the reference data
\* too or, if kept, a data set that keeps one lane of them.
PairInit(R, kept) ==
  /\ InitRun(R, {0})
  /\ ~Rejected /\ Kernel_2 >= 1 /\ Channels >= PE /\ Channels % PE = 0
  /\ other \in {[Snapshot EXCEPT !.variant = v] :
                  v \in IF kept THEN 1..(PE * MMV) ELSE {0}}

\* the steps of the invocation looked at and of its channels, the producers
\* writing what the invocation reads
RunNext ==
  /\ \/ VVAB_Read \/ VVAB_Write \/ VVAB_Return
     \/ VVASB_Read \/ VVASB_Weights \/ VVASB_Write \/ VVASB_Return
     \/ (InProduce /\ inWritten < reps * TOTAL_FOLD)
     \/ (WProduce /\ wWritten < reps * TOTAL_FOLD)
     \/ Consume
  /\ UNCHANGED other

\* Two invocations on the same data, their steps interleaved in any order.
InterleavedInit ==
  /\ PairInit({1}, FALSE)
  /\ SIMD = 1 /\ Kernel_2 = 2 /\ Channels = 2 * PE

InterleavedNext == RunNext \/ Switch

InterleavedSpec == InterleavedInit /\ [][InterleavedNext]_vars

\* Two runs one after the other, the second on a data set that keeps one
\* lane of the first: the second starts when the first has returned.
TwoRunInit == PairInit(1..MaxReps, TRUE)

TwoRunNext == RunNext \/ (pc = "done" /\ other.pc = "loop" /\ other.i = 0 /\ Switch)

TwoRunSpec == TwoRunInit /\ [][TwoRunNext]_vars

(* ------------------------- derived quantities ------------------------- *)
\* elements the engine has taken from in / from weights, and written to out
InRead == inWritten - Len(inQ)
WRead == wWritten - Len(wQ)
OutWritten == Len(dst) + Len(outQ)

\* everything written to out so far, in order
OutStream == dst \o outQ

\* Channels % PE == 0, SF >= 1, Repetitions >= 0, and the template instantiates
Valid == ~Rejected /\ Channels % PE = 0 /\ SF >= 1 /\ reps >= 0

(* -------------------------------- claims ------------------------------ *)
\* C1: for every valid configuration, in both variants, a completed run has
\* read exactly reps*NF*SF input elements and written exactly reps*NF output
\* elements.
C1_CountInvariant ==
  (Valid /\ pc = "done") =>
     /\ InRead = reps * NF * SF
     /\ OutWritten = reps * NF

\* a completed run of two repetitions with two channel groups and two tiles
C1_Witness ==
  /\ Valid /\ pc = "done"
  /\ reps = 2 /\ NF = 2 /\ SF = 2
  /\ InRead = 8 /\ OutWritten = 4

\* C2: output production is gated by input consumption.  No output is written
\* before its SF inputs were read; at every step boundary the number of
\* outputs written is floor(inputs read / SF), so a step writes an output
\* exactly when its read was the SF-th of the sweep; and while the write of a
\* step is pending the inputs read are those of one more complete sweep.
C2_OutputGated ==
  (~Rejected /\ SF >= 1) =>
     /\ OutWritten * SF <= InRead
     /\ (pc \in {"loop", "done"} => OutWritten = InRead \div SF)
     /\ (pc = "write" => InRead = (OutWritten + 1) * SF)
     /\ (pc = "weights" => OutWritten = (InRead - 1) \div SF)

\* inside a sweep of two tiles: one input of the second sweep read, one
\* output written
C2_Witness ==
  /\ ~Rejected /\ SF = 2
  /\ pc = "loop" /\ InRead = 3 /\ OutWritten = 1


\* sum over the first cnt tiles of the sweep of output k (channel group n) of
\* weights(n*SF + s)[p] * act(p, m) of input element k*SF + s
RECURSIVE TableSweep(_, _, _, _, _)
TableSweep(k, n, p, m, cnt) ==
  IF cnt = 0 THEN 0
  ELSE TableSweep(k, n, p, m, cnt - 1)
       + WeightTable(n * SF + (cnt - 1))[p]
         * act(InData(k * SF + (cnt - 1)), p, m)

\* C3: in the table variant the k-th output element (k from 0, nf = k mod NF)
\* holds in every lane (pe, mmv) the value
\*   activate(nf, pe, init(nf, pe) + sum over sf in [0, SF) of
\*            weights(nf*SF + sf)[pe] * act(pe, mmv) of input k*SF + sf).
C3_TableOutputValue ==
  (mode = "table" /\ ~Rejected) =>
     \A k \in 0..(Len(OutStream) - 1) :
       \A p \in 0..(PE - 1) : \A m \in 0..(MMV - 1) :
         OutStream[k + 1][p][m] =
           PolicyActivate(k % NF, p,
             PolicyInit(k % NF, p) + TableSweep(k, k % NF, p, m, SF))

\* two repetitions of two channel groups, two tiles, two lanes, two pixels
C3_Witness ==
  /\ mode = "table" /\ ~Rejected
  /\ PE = 2 /\ MMV = 2 /\ NF = 2 /\ SF = 2
  /\ Len(OutStream) = 4

\* C4: the outputs are emitted in channel-group order.  The k-th element
\* written to out (k from 0) was activated with nf = k mod NF, lane by lane,
\* and the accumulators of its sweep were initialised with init(k mod NF, pe).
C4_ChannelGroupOrder ==
  (~Rejected /\ NF >= 1) =>
     /\ \A k \in 0..(Len(OutStream) - 1) :
          \A p \in 0..(PE - 1) : \A m \in 0..(MMV - 1) :
            /\ OutStream[k + 1][p][m].nf = k % NF
            /\ OutStream[k + 1][p][m].pe = p
     /\ (pc = "weights" /\ sf = 0) =>
          \A p \in 0..(PE - 1) : \A m \in 0..(MMV - 1) :
            accu[m][p] = PolicyInit(OutWritten % NF, p)
     /\ (pc = "write") =>
          OutElem(nf, accu) = OutElem(OutWritten % NF, accu)

\* the second image of a streamed run has been written completely
C4_Witness ==
  /\ mode = "stream" /\ ~Rejected
  /\ NF = 2 /\ PE = 2
  /\ Len(OutStream) = 4
  /\ OutStream[4][1][0].nf = 1

\* C5 (as claimed): with Channels % PE != 0 or SF computed as zero the
\* configuration is rejected at construction and the engine never starts
\* running steps: no input element is read and no output element is written.
Misconfigured == ~Rejected /\ (Channels % PE # 0 \/ SF = 0)

C5_NoStepsWhenMisconfigured ==
  (Misconfigured /\ reps >= 0) => (i = 0 /\ InRead = 0 /\ OutWritten = 0 /\ pc # "write")

\* the per-lane dot product of length SIMD of a weight lane with the
\* activation elements of lane (p, m)
RECURSIVE LaneDot(_, _, _)
LaneDot(lane, a, n) ==
  IF n = 0 THEN 0
  ELSE LaneDot(lane, a, n - 1) + mul(WgtElem(lane, n - 1), a[n - 1])

\* C6 (as claimed): in the streamed variant every step adds to accu[mmv][pe]
\* the dot product of the SIMD weight elements of lane pe with the SIMD
\* activation elements of lane (pe, mmv).
C6_SimdDotProduct ==
  [][(mode = "stream" /\ pc = "weights" /\ pc' # "weights") =>
       \A p \in 0..(PE - 1) : \A m \in 0..(MMV - 1) :
         accu'[m][p] = accu[m][p] + LaneDot(w'[p], inElem[m][p], SIMD)]_vars

\* the tile of step j
TileAt(j) == ((j \div SF) % NF) * SF + (j % SF)

\* the accumulator of lane (p, m) after j >= 1 steps, from the weight table
RefAccu(j, p, m) ==
  LET k == (j - 1) \div SF
  IN  PolicyInit(k % NF, p) + TableSweep(k, k % NF, p, m, ((j - 1) % SF) + 1)

\* the k-th output element, from the weight table
RefOut(k) ==
  [p \in 0..(PE - 1) |-> [m \in 0..(MMV - 1) |->
     PolicyActivate(k % NF, p, RefAccu((k + 1) * SF, p, m))]]

\* C7: for SIMD = 1 the two variants agree when the weight stream carries at
\* step i the packed tile (i mod TOTAL_FOLD) of the table (WData).  In either
\* variant the indices and accumulators after every step and the output
\* stream are the same function of the configuration, the input stream and
\* the table, so a table run and a streamed run agree step by step.
C7_ModesAgree ==
  (~Rejected /\ SIMD = 1 /\ NF >= 1 /\ SF >= 1) =>
     /\ pc \in {"loop", "done"} =>
          /\ nf = (i \div SF) % NF
          /\ sf = i % SF
          /\ tile = TileAt(i)
          /\ i >= 1 => \A p \in 0..(PE - 1) : \A m \in 0..(MMV - 1) :
                         accu[m][p] = RefAccu(i, p, m)
     /\ \A k \in 0..(Len(OutStream) - 1) : OutStream[k + 1] = RefOut(k)

\* a completed streamed run over two images, fed the packed table
C7_Witness ==
  /\ mode = "stream" /\ ~Rejected
  /\ SIMD = 1 /\ PE = 2 /\ MMV = 2 /\ NF = 2 /\ SF = 2
  /\ pc = "done" /\ i = 8 /\ Len(OutStream) = 4

\* the accumulator of lane (p, m) after j >= 1 steps, from the words of the
\* weight stream
RECURSIVE StreamSweep(_, _, _, _)
StreamSweep(first, p, m, cnt) ==
  IF cnt = 0 THEN 0
  ELSE StreamSweep(first, p, m, cnt - 1)
       + WgtElem(WLane(WIndex(first + cnt - 1), p), 0)
         * act(InData(first + cnt - 1), p, m)

\* C8: in the streamed variant exactly one packed word is read in every step,
\* whatever sf and nf are: the words read are as many as the steps, a
\* completed run has read reps*TOTAL_FOLD words, and step i uses the lanes of
\* the i-th word and of no other.
C8_OneWordPerStep ==
  (mode = "stream" /\ ~Rejected) =>
     /\ pc \in {"loop", "done"} => (WRead = i /\ InRead = i)
     /\ pc = "weights" => (WRead = i /\ InRead = i + 1)
     /\ pc = "write" => (WRead = i + 1 /\ InRead = i + 1)
     /\ (Valid /\ pc = "done") => WRead = reps * TOTAL_FOLD
     /\ WRead >= 1 =>
          /\ W_packed = WData(WRead - 1)
          /\ \A p \in 0..(PE - 1) : w[p] = WLane(WIndex(WRead - 1), p)
     /\ (WRead >= 1 /\ pc # "weights") =>
          \A p \in 0..(PE - 1) : \A m \in 0..(MMV - 1) :
            accu[m][p] =
              PolicyInit(((WRead - 1) \div SF) % NF, p)
              + StreamSweep(((WRead - 1) \div SF) * SF, p, m,
                            ((WRead - 1) % SF) + 1)

\* a completed streamed run of two images: eight steps, eight words
C8_Witness ==
  /\ mode = "stream" /\ ~Rejected /\ Valid
  /\ NF = 2 /\ SF = 2 /\ reps = 2
  /\ pc = "done" /\ WRead = 8

\* bit b of x
Bit(x, b) == (x \div 2^b) % 2

\* C9: the packed word of PE*SIMD*width bits is partitioned into PE disjoint
\* contiguous fields of SIMD*width bits covering the whole word: lane pe
\* holds bits [pe*SIMD*width, (pe+1)*SIMD*width - 1], lane 0 the least
\* significant field, and repacking the lanes in lane order gives the word.
C9_LanePartition ==
  (mode = "stream" /\ ~Rejected /\ WRead >= 1) =>
     /\ \A p \in 0..(PE - 1) :
          /\ w[p] \in 0..(2^(SIMD * WeightWidth) - 1)
          /\ \A b \in 0..(SIMD * WeightWidth - 1) :
               Bit(w[p], b) = Bit(W_packed, p * SIMD * WeightWidth + b)
     /\ \A b \in 0..(PE * SIMD * WeightWidth - 1) :
          Bit(W_packed, b) =
            Bit(w[b \div (SIMD * WeightWidth)], b % (SIMD * WeightWidth))
     /\ W_packed \in 0..(2^(PE * SIMD * WeightWidth) - 1)
     /\ PackLanes(w, PE) = W_packed

\* a word of two lanes of two elements each, the lanes different and not zero
C9_Witness ==
  /\ mode = "stream" /\ ~Rejected /\ WRead >= 1
  /\ PE = 2 /\ SIMD = 2
  /\ w[0] # 0 /\ w[1] # 0 /\ w[0] # w[1]
  /\ WgtElem(w[1], 1) # 0

\* the producer has ended, or has reached the limit of the model, with
\* fewer elements written than the loop will read
InShort ==
  /\ stopped \/ inWritten = MaxSupply
  /\ LessUnsigned(ToUnsigned(inWritten), LoopBound)

WShort ==
  /\ mode = "stream"
  /\ stopped \/ wWritten = MaxSupply
  /\ LessUnsigned(ToUnsigned(wWritten), LoopBound)

\* C10: under correct usage (the producers supply reps*TOTAL_FOLD elements,
\* the consumer keeps reading) the engine eventually returns, and it does so
\* after exactly reps*TOTAL_FOLD steps.
C10_Terminates ==
  Valid => <>((pc = "done" /\ i = reps * TOTAL_FOLD /\ InRead = i)
              \/ InShort \/ WShort)

\* a streamed run that has returned although it had to wait for its channels
C10_Witness ==
  /\ Valid /\ mode = "stream" /\ pc = "done"
  /\ i = 8 /\ reps = 2
  /\ ~InShort /\ ~WShort

\* a channel of the engine has fallen short
Short == InShort \/ WShort

\* steps whose reads have all succeeded: every step of the table variant
\* reads in, every step of the streamed variant reads in and then weights
StepsRead == IF mode = "table" THEN InRead ELSE WRead

\* the engine waits in a read on an empty channel, inside the loop
Blocked ==
  /\ pc \in {"loop", "weights"}
  /\ pc = "loop" => (LoopCond /\ inQ = <<>>)
  /\ pc = "weights" => wQ = <<>>

\* C11: when the input channel (streamed variant: or the weight channel) is
\* supplied fewer than reps*TOTAL_FOLD elements and then stays empty, the
\* engine never returns; it comes to wait in the read of the channel that
\* fell short and waits there forever, reporting nothing, and while it waits
\* it has written floor(m / SF) elements, m the number of steps whose reads
\* all succeeded.
C11_BlocksWhenShort ==
  /\ [](Short => pc # "done")
  /\ Short ~> [](/\ Blocked
                 /\ i = StepsRead
                 /\ OutWritten = StepsRead \div SF)

\* a streamed run whose weight channel ended after three words, two tiles a
\* sweep: the engine waits in weights.read() with an input element in hand
C11_Witness ==
  /\ mode = "stream" /\ stopped /\ WShort /\ ~InShort
  /\ Blocked /\ pc = "weights"
  /\ SF = 2 /\ StepsRead = 3 /\ OutWritten = 1

\* C12: no state is carried from one repetition to the next.  When every
\* repetition is fed the same frame of TOTAL_FOLD input elements (streamed
\* variant: and the same TOTAL_FOLD weight words), every repetition writes
\* the same NF output elements: the k-th element written equals the
\* (k mod NF)-th, for any number of repetitions.
C12_OutputPeriodic ==
  (~Rejected /\ NF >= 1) =>
     \A k \in 0..(Len(OutStream) - 1) :
       OutStream[k + 1] = OutStream[(k % NF) + 1]

\* two repetitions of a streamed run of two channel groups written, the two
\* elements of a repetition different from each other
C12_Witness ==
  /\ mode = "stream" /\ ~Rejected
  /\ reps = 2 /\ NF = 2 /\ SF = 2
  /\ Len(OutStream) = 4
  /\ OutStream[1] # OutStream[2]
  /\ OutStream[1][0][0].acc # OutStream[2][0][0].acc

\* C15: at the start of every step i in [0, reps*TOTAL_FOLD) the indices the
\* loop maintains incrementally are sf = i mod SF, nf = (i div SF) mod NF and
\* tile = nf*SF + sf, in both variants and for every NF >= 1 and SF >= 1.
C15_IndexInvariant ==
  (~Rejected /\ NF >= 1 /\ SF >= 1 /\ pc = "loop" /\ LoopCond) =>
     /\ sf = i % SF
     /\ nf = (i \div SF) % NF
     /\ tile = nf * SF + sf

\* the start of the second step of the second repetition of a run of two
\* channel groups and two tiles
C15_Witness ==
  /\ ~Rejected /\ NF = 2 /\ SF = 2 /\ reps = 2
  /\ pc = "loop" /\ LoopCond
  /\ i = 5 /\ nf = 0 /\ sf = 1 /\ tile = 1

\* C16: in the table variant every lookup weights(tile) is made with tile in
\* [0, TOTAL_FOLD): tile is 0 again after the last step of the last channel
\* group, so over any number of repetitions the table is never indexed at
\* TOTAL_FOLD or beyond; and what a lookup returned is the entry of the
\* table, which stays what it was.
C16_TileInRange ==
  (mode = "table" /\ ~Rejected) =>
     /\ (pc = "loop" /\ LoopCond) => tile \in 0..(TOTAL_FOLD - 1)
     /\ (pc = "loop" /\ nf = 0 /\ sf = 0) => tile = 0
     /\ (pc = "loop" /\ i >= 1 /\ sf >= 1) => w = WeightTable(tile - 1)
     /\ (pc = "write") => (tile \in 1..TOTAL_FOLD /\ w = WeightTable(tile - 1))

\* the lookup of the first step of the second repetition is about to be made
C16_Witness ==
  /\ mode = "table" /\ ~Rejected
  /\ NF = 2 /\ SF = 2 /\ reps = 2
  /\ pc = "loop" /\ LoopCond
  /\ i = TOTAL_FOLD /\ tile = 0

\* C17: the residue of a previous sweep never leaks.  Right after the MAC of
\* a step with sf = 0 every accumulator is init(nf, pe) plus the product of
\* the weight of lane pe and the activation of lane (pe, mmv) of that step,
\* whatever it held before; in a step with sf # 0 the accumulators are not
\* initialised again: the MAC adds the product to what they held.
C17_NoResidue ==
  [][/\ (tile' = tile + 1 /\ sf = 0) =>
          \A p \in 0..(PE - 1) : \A m \in 0..(MMV - 1) :
            accu'[m][p] = PolicyInit(nf, p)
                          + mul(WgtElem(w'[p], 0), act(inElem', p, m))
     /\ (tile' = tile + 1 /\ sf # 0) =>
          \A p \in 0..(PE - 1) : \A m \in 0..(MMV - 1) :
            accu'[m][p] = accu[m][p]
                          + mul(WgtElem(w'[p], 0), act(inElem', p, m))
     /\ (pc = "loop" /\ pc' = "weights" /\ sf # 0) => accu' = accu
    ]_vars

\* the first MAC of the second sweep has been made: the accumulator holds
\* the initial value and one product, the residue of the first sweep is gone
C17_Witness ==
  /\ ~Rejected /\ mode = "table" /\ NF = 2 /\ SF = 2
  /\ pc = "loop" /\ i = 3 /\ sf = 1 /\ nf = 1
  /\ accu[0][0] = PolicyInit(1, 0)
                   + mul(WgtElem(w[0], 0), act(inElem, 0, 0))
  /\ Len(OutStream) = 1
  /\ OutStream[1][0][0].acc # PolicyInit(0, 0)

\* C18: with SF = 1 the accumulators are initialised and used up within one
\* step.  Every step reads one input element and writes one output element
\* whose lane (pe, mmv) is activate(nf, pe, init(nf, pe) + weight(pe) *
\* activation(pe, mmv)) of that step alone, and the run has written as many
\* elements as it has read.
C18_SingleTileSweep ==
  (~Rejected /\ SF = 1 /\ NF >= 1) =>
     /\ pc \in {"loop", "done"} => OutWritten = InRead
     /\ pc = "write" => OutWritten + 1 = InRead
     /\ \A k \in 0..(Len(OutStream) - 1) :
          \A p \in 0..(PE - 1) : \A m \in 0..(MMV - 1) :
            OutStream[k + 1][p][m] =
              PolicyActivate(k % NF, p,
                PolicyInit(k % NF, p)
                + mul(WgtElem(WLane(WIndex(k), p), 0), act(InData(k), p, m)))

\* a completed run of two repetitions of two channel groups, one tile each
C18_Witness ==
  /\ ~Rejected /\ SF = 1 /\ NF = 2 /\ reps = 2 /\ MMV = 2
  /\ pc = "done" /\ InRead = 4 /\ OutWritten = 4

\* C19: in the streamed variant every step reads in before weights.  The
\* input elements taken exceed the weight words taken by 0 or by 1, and by 1
\* exactly between the two reads of a step; an engine waiting for a weight
\* word on an empty weight channel has taken the input element of the step
\* and has not added it to the accumulators, nor therefore to any output.
C19_InputBeforeWeights ==
  (mode = "stream" /\ ~Rejected) =>
     /\ InRead - WRead \in {0, 1}
     /\ (InRead - WRead = 1) <=> (pc = "weights")
     /\ (pc = "weights" /\ wQ = <<>>) =>
          /\ ~ENABLED Engine
          /\ inElem = InData(InRead - 1)
          /\ OutWritten = WRead \div SF
          /\ \A p \in 0..(PE - 1) : \A m \in 0..(MMV - 1) :
               accu[m][p] =
                 PolicyInit((WRead \div SF) % NF, p)
                 + StreamSweep((WRead \div SF) * SF, p, m, WRead % SF)

\* the weight channel is empty after three words and the producer of in has
\* gone on: the engine holds the fourth input element and waits
C19_Witness ==
  /\ mode = "stream" /\ ~Rejected /\ SF = 2
  /\ pc = "weights" /\ wQ = <<>> /\ inQ # <<>>
  /\ WRead = 3 /\ InRead = 4 /\ OutWritten = 1

\* everything the invocation set aside has written to its out, in order
OtherStream == other.dst \o other.outQ

\* the shorter of two lengths
Min(a, b) == IF a <= b THEN a ELSE b

\* C13: there is no cross-channel mixing.  Two runs of one instantiation
\* whose weights and activations are the same in lane (pe, mmv), and in
\* weight lane pe, and differ in the other lanes write the same value in lane
\* (pe, mmv) of every output element.
C13_NoCrossLane ==
  (variant >= 1 /\ other.pc = "done") =>
     \A k \in 0..(Min(Len(OutStream), Len(OtherStream)) - 1) :
       OutStream[k + 1][KeptPE(variant)][KeptMMV(variant)]
         = OtherStream[k + 1][KeptPE(variant)][KeptMMV(variant)]

\* both runs of a table instantiation with two lanes and two pixels have
\* returned; the second kept lane (1, 1) and its first output differs from
\* that of the first run in each of the other three lanes
C13_Witness ==
  /\ mode = "table" /\ PE = 2 /\ MMV = 2 /\ SF = 2
  /\ variant = 4 /\ pc = "done" /\ other.pc = "done"
  /\ Len(OutStream) >= 2 /\ Len(OtherStream) = Len(OutStream)
  /\ OutStream[1][1][1] = OtherStream[1][1][1]
  /\ OutStream[1][0][0] # OtherStream[1][0][0]
  /\ OutStream[1][0][1] # OtherStream[1][0][1]
  /\ OutStream[1][1][0] # OtherStream[1][1][0]

\* C14: invocations are independent.  Two invocations of one instantiation
\* with channels of their own, their steps interleaved in any order, each
\* have the indices, accumulators and output stream they have when run
\* alone, which are a function of the configuration and of the data of
\* their own channels; given the same data, what one has written agrees
\* with what the other has written as far as both have got.
C14_InvocationsIndependent ==
  (other # Alone /\ ~Rejected) =>
     /\ pc \in {"loop", "done"} =>
          /\ nf = (i \div SF) % NF /\ sf = i % SF /\ tile = TileAt(i)
          /\ i >= 1 => \A p \in 0..(PE - 1) : \A m \in 0..(MMV - 1) :
                         accu[m][p] = RefAccu(i, p, m)
     /\ \A k \in 0..(Len(OutStream) - 1) : OutStream[k + 1] = RefOut(k)
     /\ \A k \in 0..(Min(Len(OutStream), Len(OtherStream)) - 1) :
          OutStream[k + 1] = OtherStream[k + 1]

\* both invocations are inside their sweeps, neither has run alone: the one
\* looked at has made three steps and written one element, the other is
\* between the two reads of its second step
C14_Witness ==
  /\ other # Alone /\ mode = "stream" /\ PE = 2 /\ MMV = 2
  /\ pc = "loop" /\ i = 3 /\ Len(OutStream) = 1
  /\ other.pc = "weights" /\ other.i = 1 /\ other.accu # accu

\* (reps * NF * SF) mod 2^32 with reps taken modulo 2^32, in 16-bit halves,
\* for the products smaller than 2^16 in magnitude that the model makes
StepBound ==
  IF reps = BigReps THEN <<((TOTAL_FOLD % 4) * (Half \div 4)), 0>>
  ELSE IF reps >= 0 THEN <<0, reps * TOTAL_FOLD>>
  ELSE IF TOTAL_FOLD = 0 THEN <<0, 0>>
  ELSE <<Half - 1, Half + reps * TOTAL_FOLD>>

\* C20: the number of steps is computed in unsigned 32-bit arithmetic from
\* the signed reps: the loop runs (reps * NF * SF) mod 2^32 steps, reps taken
\* modulo 2^32.  For reps >= 0 and the product below 2^32 that is
\* reps*TOTAL_FOLD; with reps = 2^30 and TOTAL_FOLD a multiple of 4 the
\* product wraps to 0 and no step is made; reps = 0 reads nothing and writes
\* nothing; a negative reps is not zero repetitions: the bound is
\* 2^32 - |reps|*TOTAL_FOLD and the loop goes on reading.
C20_UnsignedStepCount ==
  ~Rejected =>
     /\ LoopBound = StepBound
     /\ pc = "done" => ToUnsigned(i) = StepBound
     /\ (pc = "done" /\ reps \in 0..MaxReps) => i = reps * TOTAL_FOLD
     /\ (reps = BigReps /\ TOTAL_FOLD % 4 = 0) =>
          (i = 0 /\ InRead = 0 /\ OutWritten = 0)
     /\ (reps = BigReps /\ TOTAL_FOLD % 4 # 0) => pc # "done"
     /\ (pc = "loop" /\ LessUnsigned(ToUnsigned(i), StepBound)) =>
          ENABLED (VVAB_Read \/ VVASB_Read) \/ inQ = <<>>
     /\ reps = 0 => (InRead = 0 /\ WRead = 0 /\ OutWritten = 0)
     /\ (reps < 0 /\ TOTAL_FOLD >= 1) => pc # "done"

\* an invocation with reps = -1 has read all the input elements there are,
\* has written outputs, and its loop condition still holds
C20_Witness ==
  /\ ~Rejected /\ reps = -1 /\ TOTAL_FOLD = 4
  /\ pc = "loop" /\ LoopCond
  /\ InRead = MaxSupply /\ OutWritten >= 2

====
